---- MODULE Spec2Model ----
(***************************************************************************)
(* A model of distromax: AnalyticalGammaToGumbel (analytical.py) and the    *)
(* fitting classes BatchMaxGumbel, BatchMaxGumbelWithCleaning and           *)
(* BatchMaxGumbelNotchingOutliers (fit.py).                                 *)
(*                                                                         *)
(* Three specifications share the module:                                  *)
(*   SpecGamma  construction of AnalyticalGammaToGumbel                     *)
(*   SpecBatch  construction of BatchMaxGumbel and max_propagation          *)
(*   Spec       construction of BatchMaxGumbelNotchingOutliers              *)
(*                                                                         *)
(* Array positions are 0-based as in numpy; element i of an array a is the *)
(* sequence element a[i + 1].                                               *)
(***************************************************************************)
EXTENDS Integers, Sequences, FiniteSets, TLC

VARIABLES
    gargs,              \* keyword arguments of AnalyticalGammaToGumbel.__init__
    analytical,         \* the AnalyticalGammaToGumbel object: outcome, shape, scale
    input,              \* the `samples` argument of the fitting constructor
    kwargs,             \* the remaining arguments of the fitting constructor
    pc,                 \* position of the fitting constructor
    error,              \* the exception that ended the constructor, "" if none
    attrs,              \* names of the attributes assigned on the object so far
    samples,            \* self.samples
    samples_to_batch,   \* local of batch_max_samples
    batch_max,          \* self.batch_max
    gumbel,             \* self.gumbel.args
    propagated_gumbel,  \* self.propagated_gumbel.args
    returned,           \* value returned by the last max_propagation call
    num_batches,        \* arguments of the max_propagation calls made so far
    num_iterations,     \* local num_iterations of the cleaning constructor
    notched_samples,    \* local notched_samples of the cleaning constructor
    notching_iterations, \* self.notching_iterations
    f0,                 \* self.f0
    unique_indices,     \* self.unique_indices
    max_at_f0,          \* self.max_at_f0
    threshold,          \* self.threshold
    stopping_det_stat,  \* self.stopping_det_stat
    stopping_quantile,  \* self.stopping_quantile
    last                \* record of the last notching iteration (history)

gammaVars == <<gargs, analytical>>
fitVars == <<samples, samples_to_batch, batch_max, gumbel>>
propVars == <<propagated_gumbel, returned, num_batches>>
notchVars == <<num_iterations, notched_samples, notching_iterations, f0,
               unique_indices, max_at_f0, threshold, stopping_det_stat,
               stopping_quantile, last>>
ctlVars == <<input, kwargs, pc, error, attrs>>
vars == <<gammaVars, ctlVars, fitVars, propVars, notchVars>>

----------------------------------------------------------------------------
(* Bounds of the model *)

MaxNum == 4         \* numerators of the Gamma parameters
MaxDen == 2         \* denominators of the Gamma parameters
MaxLen == 3         \* samples handed to BatchMaxGumbel
MaxBatchSize == 4   \* batch_size values
MaxNumBatches == 3  \* num_batches values of max_propagation
MaxCalls == 2       \* max_propagation calls on one object
MaxRows == 3        \* rows of the 2-D samples handed to the notcher
MaxFreq == 3        \* index (frequency) values 1..MaxFreq

----------------------------------------------------------------------------
(* Python values *)

\* An optional argument: None, a number, or a callable named fn.
None == [kind |-> "None", val |-> 0, fn |-> ""]
Num(v) == [kind |-> "num", val |-> v, fn |-> ""]
Callable(f) == [kind |-> "callable", val |-> 0, fn |-> f]

\* bool(x) of an optional argument: None and 0 are falsy.
Truthy(x) == x.kind = "callable" \/ (x.kind = "num" /\ x.val # 0)

\* The Python expression `x or default`.
PyOr(x, default) == IF Truthy(x) THEN x ELSE default

----------------------------------------------------------------------------
(* Rational numbers <<numerator, denominator>> for the Gamma parameters.    *)
(* RNone stands for a parameter left at None.                               *)

RECURSIVE Gcd(_, _)
Gcd(a, b) == IF b = 0 THEN a ELSE Gcd(b, a % b)

Norm(q) == LET g == Gcd(q[1], q[2]) IN
           IF q[1] = 0 THEN <<0, 1>> ELSE <<q[1] \div g, q[2] \div g>>

RNone == <<0, 0>>
Rationals == {Norm(<<n, d>>) : n \in 0..MaxNum, d \in 1..MaxDen}
GammaValues == Rationals \cup {RNone}

\* bool(x) of a Gamma parameter
RTruthy(q) == q # RNone /\ q[1] # 0

----------------------------------------------------------------------------
(* AnalyticalGammaToGumbel.__init__ (analytical.py) *)

\* shape = dofs / 2
ShapeFromDofsDoubled(dofs) == Norm(<<dofs[1] * 2, dofs[2]>>)
ShapeFromDofs(dofs) == Norm(<<dofs[1], dofs[2] * 2>>)

\* scale = 1 / rate
ScaleFromRateIdentity(rate) == rate
ScaleFromRate(rate) == Norm(<<rate[2], rate[1]>>)

\* not (bool(scale) ^ bool(rate))
ScaleRateConflictBothOnly(scale, rate) == RTruthy(scale) /\ RTruthy(rate)
ScaleRateConflict(scale, rate) == ~(RTruthy(scale) # RTruthy(rate))

NotConstructed == [status |-> "NotConstructed", shape |-> RNone, scale |-> RNone]
Raised(exc) == [status |-> exc, shape |-> RNone, scale |-> RNone]

\* _set_shape_scale
SetShapeScale(shape, scale) == [status |-> "ok", shape |-> shape, scale |-> scale]

\* The object left by AnalyticalGammaToGumbel(dofs, shape, scale, rate).
AnalyticalInit(dofs, shape, scale, rate) ==
    IF RTruthy(dofs)
    THEN IF RTruthy(shape)
         THEN Raised("ValueError")
         ELSE SetShapeScale(ShapeFromDofs(dofs), <<2, 1>>)
    ELSE IF RTruthy(shape)
         THEN IF ScaleRateConflict(scale, rate)
              THEN Raised("ValueError")
              ELSE IF RTruthy(rate)
                   THEN SetShapeScale(shape, ScaleFromRate(rate))
                   ELSE SetShapeScale(shape, scale)
         ELSE Raised("ValueError")

NoGammaArgs == [dofs |-> RNone, shape |-> RNone, scale |-> RNone, rate |-> RNone]

GammaConstruct ==
    /\ analytical.status = "NotConstructed"
    /\ \E dofs \in GammaValues, shape \in GammaValues,
          scale \in GammaValues, rate \in GammaValues :
          /\ gargs' = [dofs |-> dofs, shape |-> shape, scale |-> scale, rate |-> rate]
          /\ analytical' = AnalyticalInit(dofs, shape, scale, rate)
    /\ UNCHANGED <<ctlVars, fitVars, propVars, notchVars>>

----------------------------------------------------------------------------
(* numpy helpers *)

\* Statistic values of the samples, in tenths of a unit.
StatValues == {0, 10}

Max2(a, b) == IF a >= b THEN a ELSE b
Min2(a, b) == IF a <= b THEN a ELSE b

\* max(a[lo:hi]) of a non-empty slice, 0-based, hi exclusive
RECURSIVE SliceMax(_, _, _)
SliceMax(a, lo, hi) ==
    IF hi - lo <= 1 THEN a[lo + 1] ELSE Max2(a[lo + 1], SliceMax(a, lo + 1, hi))

\* np.arange(start, stop, step)
RECURSIVE Arange(_, _, _)
Arange(start, stop, step) ==
    IF start >= stop THEN <<>> ELSE <<start>> \o Arange(start + step, stop, step)

\* np.maximum.reduceat(a, idx): entry k reduces a[idx[k]:idx[k+1]] (to the end
\* of a for the last k), or is a[idx[k]] when idx[k] >= idx[k+1].
ReduceatDropTail(a, idx) ==
    [k \in 1..Len(idx) |->
        LET lo == idx[k]
            hi == IF k < Len(idx) THEN idx[k + 1] ELSE Min2(Len(a), lo + 1)
        IN IF lo < hi THEN SliceMax(a, lo, hi) ELSE a[lo + 1]]
MaximumReduceat(a, idx) ==
    [k \in 1..Len(idx) |->
        LET lo == idx[k]
            hi == IF k < Len(idx) THEN idx[k + 1] ELSE Len(a)
        IN IF lo < hi THEN SliceMax(a, lo, hi) ELSE a[lo + 1]]

\* samples[:, -1]
LastColumn(rows) == [i \in 1..Len(rows) |-> rows[i][Len(rows[i])]]

\* rng.permutation(a): every reordering of a
Permuted(a) == {[i \in 1..Len(a) |-> a[p[i]]] : p \in Permutations(1..Len(a))}

----------------------------------------------------------------------------
(* BatchMaxGumbel (fit.py) *)

\* stats.gumbel_r.fit: maximum-likelihood (loc, scale) in thousandths, scale > 0.
\* The estimator is a library routine; its result is left open.
FitResults == {<<-500, 500>>, <<1500, 2000>>}

\* np.log(n) in thousandths, n in 1..6
LnMilli(n) == <<0, 693, 1099, 1386, 1609, 1792>>[n]

\* x * y of two numbers in thousandths
MulMilli(x, y) == (x * y) \div 1000

\* (loc + scale * np.log(num_batches), scale)
PropagatedParamsNoLog(args, n) == <<args[1] + args[2] * n, args[2]>>
PropagatedParams(args, n) == <<args[1] + MulMilli(args[2], LnMilli(n)), args[2]>>

\* batch_max_samples: the (samples_to_batch, batch_max) pairs it can produce
BatchMaxSamples(smp, batch_size, shuffle) ==
    IF ~Truthy(batch_size)
    THEN {<<<<>>, smp>>}
    ELSE {<<stb, MaximumReduceat(stb, Arange(0, Len(stb), batch_size.val))>> :
            stb \in (IF shuffle THEN Permuted(smp) ELSE {smp})}

\* BatchMaxGumbel.__init__ on 1-D data: set_samples, batch_max_samples, fit.
\* (set_samples also stores a density histogram of the samples, a diagnostic
\* that no other step reads.)
BatchMaxGumbelInit(smp, batch_size, shuffle) ==
    /\ samples' = smp
    /\ \E r \in BatchMaxSamples(smp, batch_size, shuffle) :
          /\ samples_to_batch' = r[1]
          /\ batch_max' = r[2]
    /\ gumbel' \in FitResults
    /\ attrs' = attrs \cup {"samples", "batch_max", "gumbel"}

\* Non-empty 1-D data
DataSets == UNION {[1..n -> StatValues] : n \in 1..MaxLen}

\* The data as a 1-D array, or as a 2-D array with an index column
AsInput(data, ndim) ==
    [ndim |-> ndim, ncols |-> IF ndim = 2 THEN 2 ELSE 0,
     rows |-> [i \in 1..Len(data) |-> IF ndim = 2 THEN <<i, data[i]>> ELSE <<data[i]>>]]

BatchSizes == {None} \cup {Num(b) : b \in 0..MaxBatchSize}

\* BatchMaxGumbel(samples, batch_size, shuffle)
BatchConstruct ==
    /\ pc = "NotReady"
    /\ \E data \in DataSets, ndim \in {1, 2}, bs \in BatchSizes, sh \in BOOLEAN :
          /\ input' = AsInput(data, ndim)
          /\ kwargs' = [kwargs EXCEPT !.batch_size = bs, !.shuffle = sh]
          /\ BatchMaxGumbelInit(LastColumn(input'.rows), bs, sh)
    /\ pc' = "Fitted"
    /\ error' = ""
    /\ UNCHANGED <<gammaVars, propVars, notchVars>>

\* BatchMaxGumbel(samples) with samples of more than two dimensions
BatchConstructTooManyDims ==
    /\ pc = "NotReady"
    /\ input' = [ndim |-> 3, ncols |-> 0, rows |-> <<>>]
    /\ pc' = "Raised"
    /\ error' = "ValueError"
    /\ UNCHANGED <<gammaVars, kwargs, attrs, fitVars, propVars, notchVars>>

\* max_propagation(num_batches)
MaxPropagation ==
    /\ pc = "Fitted"
    /\ Len(num_batches) < MaxCalls
    /\ \E n \in 1..MaxNumBatches :
          /\ num_batches' = Append(num_batches, n)
          /\ propagated_gumbel' = PropagatedParams(gumbel, n)
          /\ returned' = PropagatedParams(gumbel, n)
    /\ attrs' = attrs \cup {"propagated_gumbel"}
    /\ UNCHANGED <<gammaVars, input, kwargs, pc, error, fitVars, notchVars>>

----------------------------------------------------------------------------
(* BatchMaxGumbelWithCleaning and BatchMaxGumbelNotchingOutliers (fit.py) *)

\* Class attributes of BatchMaxGumbelNotchingOutliers; quantiles are in tenths.
DefaultNumIterations == 5
DefaultStoppingQuantile == 8
DefaultStoppingDetStat == None
DefaultThreshold == None

\* -np.inf: below every statistic value
NegInf == -1000

\* the shape test of BatchMaxGumbelWithCleaning.__init__; ndim = -1 stands for
\* an object without an ndim attribute
FormatErrorOneColumn(ndim, ncols) == ndim = -1 \/ ndim = 0 \/ ndim # 2 \/ ncols < 1
FormatError(ndim, ncols) == ndim = -1 \/ ndim = 0 \/ ndim # 2 \/ ncols < 2

\* num_iterations after the default and the fixed-threshold override
EffectiveNumIterations(n, thr) ==
    LET given == IF n.kind # "None" THEN n.val ELSE DefaultNumIterations
    IN IF thr.kind = "num" /\ given > 1 THEN 1 ELSE given

\* samples[samples[:, 0].argsort()]: insertion of row r into a sorted array
RECURSIVE InsertByFreq(_, _)
InsertByFreq(sorted, r) ==
    IF sorted = <<>> THEN <<r>>
    ELSE IF sorted[Len(sorted)][1] <= r[1] THEN Append(sorted, r)
    ELSE Append(InsertByFreq(SubSeq(sorted, 1, Len(sorted) - 1), r), sorted[Len(sorted)])

RECURSIVE SortByFreq(_)
SortByFreq(rows) ==
    IF rows = <<>> THEN <<>>
    ELSE InsertByFreq(SortByFreq(SubSeq(rows, 1, Len(rows) - 1)), rows[Len(rows)])

\* np.unique(sorted[:, 0], return_index=True)[1]: first position of each value
UniqueIndices(sorted) ==
    SelectSeq(Arange(0, Len(sorted), 1),
              LAMBDA i : i = 0 \/ sorted[i][1] # sorted[i + 1][1])

\* np.unique(sorted[:, 0], return_index=True)[0]
UniqueValues(sorted) ==
    LET ui == UniqueIndices(sorted) IN [k \in 1..Len(ui) |-> sorted[ui[k] + 1][1]]

RECURSIVE SeqMax(_)
SeqMax(a) == IF Len(a) = 1 THEN a[1] ELSE Max2(a[1], SeqMax(Tail(a)))
RECURSIVE SeqMin(_)
SeqMin(a) == IF Len(a) = 1 THEN a[1] ELSE Min2(a[1], SeqMin(Tail(a)))

\* ascending order of a sequence of numbers
RECURSIVE SortValues(_)
SortValues(a) ==
    IF a = <<>> THEN <<>>
    ELSE LET m == SeqMin(a)
             k == CHOOSE i \in 1..Len(a) : a[i] = m
         IN <<m>> \o SortValues(SubSeq(a, 1, k - 1) \o SubSeq(a, k + 1, Len(a)))

\* np.quantile(a, q) with q in tenths: linear interpolation between the two
\* order statistics around position q * (n - 1)
Quantile(a, q) ==
    LET srt == SortValues(a)
        pos == q * (Len(a) - 1)
        lo == pos \div 10
        fr == pos % 10
    IN IF fr = 0 THEN srt[lo + 1]
       ELSE srt[lo + 1] + (fr * (srt[lo + 2] - srt[lo + 1])) \div 10

\* the callables handed in as `threshold`
CallThreshold(fn, m) == IF fn = "min" THEN SeqMin(m) ELSE SeqMax(m)

\* skimage's threshold_minimum(max_at_f0): the centre of a histogram bin lying
\* between two maxima of the histogram, hence a value strictly inside the
\* range of the data, or "RuntimeError" when the histogram shows no two maxima
ThresholdMinimum(m) ==
    {[raised |-> "", val |-> v] : v \in {w \in {0, 5, 10} : SeqMin(m) < w /\ w < SeqMax(m)}}
        \cup {[raised |-> "RuntimeError", val |-> 0]}

\* The threshold of an iteration, lines 190-201: the set of [source, val]
\* the branch taken can produce for the argument thr.
SelectThresholdFallbackMax(thr, m) ==
    IF thr.kind = "callable"
    THEN {[source |-> "callable", val |-> CallThreshold(thr.fn, m)]}
    ELSE IF thr.kind = "None"
    THEN {[source |-> IF r.raised = "" THEN "auto" ELSE "auto_failed",
           val |-> IF r.raised = "" THEN r.val ELSE SeqMax(m)] : r \in ThresholdMinimum(m)}
    ELSE {[source |-> "fixed", val |-> thr.val]}
SelectThreshold(thr, m) ==
    IF thr.kind = "callable"
    THEN {[source |-> "callable", val |-> CallThreshold(thr.fn, m)]}
    ELSE IF thr.kind = "None"
    THEN {[source |-> IF r.raised = "" THEN "auto" ELSE "auto_failed",
           val |-> IF r.raised = "" THEN r.val ELSE NegInf] : r \in ThresholdMinimum(m)}
    ELSE {[source |-> "fixed", val |-> thr.val]}

\* np.nonzero(max_at_f0 > threshold)[0]
NotchedBandsIndex(m, thr) ==
    SelectSeq(Arange(0, Len(m), 1), LAMBDA i : m[i + 1] > thr)

\* idx[np.diff(idx, prepend=p) > 1]
StartsOfRuns(idx, p) ==
    LET pos == SelectSeq(Arange(1, Len(idx) + 1, 1),
                         LAMBDA k : idx[k] - (IF k = 1 THEN p ELSE idx[k - 1]) > 1)
    IN [k \in 1..Len(pos) |-> idx[pos[k]]]

\* idx[np.diff(idx, append=q) > 1]
EndsOfRuns(idx, q) ==
    LET pos == SelectSeq(Arange(1, Len(idx) + 1, 1),
                         LAMBDA k : (IF k = Len(idx) THEN q ELSE idx[k + 1]) - idx[k] > 1)
    IN [k \in 1..Len(pos) |-> idx[pos[k]]]

\* np.delete(rows, indices, axis=0)
DeleteShifted(rows, indices) ==
    LET keep == SelectSeq(Arange(0, Len(rows), 1), LAMBDA i : (i + 1) \notin indices)
    IN [k \in 1..Len(keep) |-> rows[keep[k] + 1]]
Delete(rows, indices) ==
    LET keep == SelectSeq(Arange(0, Len(rows), 1), LAMBDA i : i \notin indices)
    IN [k \in 1..Len(keep) |-> rows[keep[k] + 1]]

\* The notching part of remove_samples, lines 232-267, on the sorted rows:
\* the exception it raises ("" if none) and the rows it returns.
Notch(rows, ui, m, thr) ==
    LET idx == NotchedBandsIndex(m, thr)
        left == StartsOfRuns(idx, -1)
        right == [k \in DOMAIN EndsOfRuns(idx, SeqMax(idx) + 2) |->
                     EndsOfRuns(idx, SeqMax(idx) + 2)[k] + 1]
        pairs == 1..Min2(Len(left), Len(right))
        indices == UNION {{i \in 0..(Len(rows) - 1) :
                              ui[left[k] + 1] <= i /\ i < ui[right[k] + 1]} : k \in pairs}
    IN IF idx = <<>>
       THEN [raised |-> "ValueError", out |-> <<>>]    \* max() of an empty array
       ELSE IF \E k \in pairs : right[k] >= Len(ui)
       THEN [raised |-> "IndexError", out |-> <<>>]    \* unique_indices[right]
       ELSE IF pairs = {}
       THEN [raised |-> "ValueError", out |-> <<>>]    \* concatenate of no array
       ELSE [raised |-> "", out |-> Delete(rows, indices)]

\* self.stopping_det_stat or np.quantile(self.max_at_f0, self.stopping_quantile)
StoppingDetStat(sds, q, m) == IF Truthy(sds) THEN sds.val ELSE Quantile(m, q.val)

\* remove_samples(samples) of BatchMaxGumbelNotchingOutliers
RemoveSamplesAlwaysNotch(rows, ui, m, thr, sds) ==
    [skipped |-> FALSE] @@ Notch(rows, ui, m, thr)
RemoveSamples(rows, ui, m, thr, sds) ==
    IF thr < sds
    THEN [skipped |-> TRUE, raised |-> "", out |-> rows]
    ELSE [skipped |-> FALSE] @@ Notch(rows, ui, m, thr)

\* Inputs of the notcher
RowKinds == {<<f, s>> : f \in 1..MaxFreq, s \in StatValues}
RowKey(r) == 100 * r[1] + r[2]
Reverse(a) == [i \in 1..Len(a) |-> a[Len(a) + 1 - i]]
OrderedRows ==
    UNION {{r \in [1..n -> RowKinds] :
               \A i \in 1..(n - 1) : RowKey(r[i]) <= RowKey(r[i + 1])} : n \in 1..MaxRows}
\* 2-D sample arrays, rows in ascending or in descending order of the index
SampleArrays == OrderedRows \cup {Reverse(r) : r \in OrderedRows}

ThresholdArgs == {None, Num(0), Num(5), Callable("min"), Callable("max")}
StoppingDetStatArgs == {None, Num(0), Num(5)}
StoppingQuantileArgs == {None, Num(0), Num(5), Num(10)}
NumIterationsArgs == {None, Num(0), Num(2)}
\* Arrays the format test rejects: no ndim attribute, 0-D, 1-D, 2-D with no
\* or one column, 3-D
BadInputs ==
    {[ndim |-> -1, ncols |-> 0, rows |-> <<>>],
     [ndim |-> 0, ncols |-> 0, rows |-> <<>>],
     [ndim |-> 1, ncols |-> 0, rows |-> <<>>],
     [ndim |-> 2, ncols |-> 0, rows |-> <<>>],
     [ndim |-> 2, ncols |-> 1, rows |-> <<<<10>>>>],
     [ndim |-> 3, ncols |-> 2, rows |-> <<>>]}
NotcherInputs ==
    BadInputs \cup {[ndim |-> 2, ncols |-> 2, rows |-> r] : r \in SampleArrays}

\* BatchMaxGumbelNotchingOutliers(samples, ...) with samples the format test
\* rejects
NotcherConstructBadFormat ==
    /\ pc = "NotReady"
    /\ \E inp \in NotcherInputs :
          /\ FormatError(inp.ndim, inp.ncols)
          /\ input' = inp
    /\ pc' = "Raised"
    /\ error' = "ValueError"
    /\ UNCHANGED <<gammaVars, kwargs, attrs, fitVars, propVars, notchVars>>

\* BatchMaxGumbelNotchingOutliers(samples, ...) up to the notching loop
NotcherConstruct ==
    /\ pc = "NotReady"
    /\ \E inp \in NotcherInputs, thr \in ThresholdArgs, sds \in StoppingDetStatArgs,
          q \in StoppingQuantileArgs, n \in NumIterationsArgs :
          /\ ~FormatError(inp.ndim, inp.ncols)
          /\ input' = inp
          /\ kwargs' = [kwargs EXCEPT !.threshold = thr, !.stopping_det_stat = sds,
                                      !.stopping_quantile = q, !.num_iterations = n]
          /\ num_iterations' = EffectiveNumIterations(n, thr)
          /\ notched_samples' = inp.rows
          /\ pc' = IF num_iterations' > 0 THEN "Iterating" ELSE "Notched"
    /\ notching_iterations' = 0
    /\ attrs' = {"notching_iterations"}
    /\ error' = ""
    /\ UNCHANGED <<gammaVars, fitVars, propVars, f0, unique_indices, max_at_f0,
                   threshold, stopping_det_stat, stopping_quantile, last>>

\* Where the constructor stands after pass k of n of the loop: an exception
\* leaves the constructor, otherwise the loop goes on or falls through to
\* super().__init__
NextPcIgnoreRaise(exc, k, n) ==
    IF k < n THEN "Iterating" ELSE "Notched"
NextPc(exc, k, n) ==
    IF exc # "" THEN "Raised"
    ELSE IF k < n THEN "Iterating"
    ELSE "Notched"

\* One pass of the notching loop: notch_outliers, remove_samples and the test
\* for an emptied sample set
NotchIteration ==
    /\ pc = "Iterating"
    /\ notching_iterations' = notching_iterations + 1
    /\ LET srt == SortByFreq(notched_samples)
           ui == UniqueIndices(srt)
           m == MaximumReduceat(LastColumn(srt), ui)
           q == PyOr(kwargs.stopping_quantile, Num(DefaultStoppingQuantile))
           sds == StoppingDetStat(PyOr(kwargs.stopping_det_stat, DefaultStoppingDetStat), q, m)
       IN /\ f0' = UniqueValues(srt)
          /\ unique_indices' = ui
          /\ max_at_f0' = m
          /\ stopping_quantile' = q
          /\ stopping_det_stat' = Num(sds)
          /\ \E t \in SelectThreshold(PyOr(kwargs.threshold, DefaultThreshold), m) :
                LET res == RemoveSamples(srt, ui, m, t.val, sds)
                    exc == IF res.raised # "" THEN res.raised
                           ELSE IF Len(res.out) = 0 THEN "RuntimeError" ELSE ""
                IN /\ threshold' = t.val
                   /\ last' = [input |-> notched_samples, output |-> res.out,
                               skipped |-> res.skipped, source |-> t.source,
                               raised |-> exc]
                   /\ notched_samples' = IF res.raised = "" THEN res.out ELSE notched_samples
                   /\ error' = exc
                   /\ pc' = NextPc(exc, notching_iterations', num_iterations)
    /\ attrs' = attrs \cup {"f0", "unique_indices", "max_at_f0", "stopping_quantile",
                            "stopping_det_stat", "threshold"}
    /\ UNCHANGED <<gammaVars, input, kwargs, num_iterations, fitVars, propVars>>

\* super().__init__(samples=notched_samples[:, -1], **kwargs)
NotcherFit ==
    /\ pc = "Notched"
    /\ BatchMaxGumbelInit(LastColumn(notched_samples), kwargs.batch_size, kwargs.shuffle)
    /\ pc' = "Fitted"
    /\ UNCHANGED <<gammaVars, input, kwargs, error, propVars, notchVars>>

----------------------------------------------------------------------------
(* The fitting object before its constructor runs *)

NoInput == [ndim |-> 0, ncols |-> 0, rows |-> <<>>]
NoKwargs == [batch_size |-> None, shuffle |-> TRUE, num_iterations |-> None,
             stopping_det_stat |-> None, stopping_quantile |-> None,
             threshold |-> None]
NoIteration == [input |-> <<>>, output |-> <<>>, skipped |-> FALSE,
                source |-> "", raised |-> ""]

IdleGamma ==
    /\ gargs = NoGammaArgs
    /\ analytical = NotConstructed

IdleFit ==
    /\ input = NoInput
    /\ kwargs = NoKwargs
    /\ pc = "NotReady"
    /\ error = ""
    /\ attrs = {}
    /\ samples = <<>>
    /\ samples_to_batch = <<>>
    /\ batch_max = <<>>
    /\ gumbel = <<0, 0>>
    /\ propagated_gumbel = <<0, 0>>
    /\ returned = <<0, 0>>
    /\ num_batches = <<>>
    /\ num_iterations = 0
    /\ notched_samples = <<>>
    /\ notching_iterations = 0
    /\ f0 = <<>>
    /\ unique_indices = <<>>
    /\ max_at_f0 = <<>>
    /\ threshold = 0
    /\ stopping_det_stat = None
    /\ stopping_quantile = None
    /\ last = NoIteration

InitGamma == IdleGamma /\ IdleFit
NextGamma == GammaConstruct
SpecGamma == InitGamma /\ [][NextGamma]_vars

InitBatch == IdleGamma /\ IdleFit
NextBatch == BatchConstruct \/ BatchConstructTooManyDims \/ MaxPropagation
SpecBatch == InitBatch /\ [][NextBatch]_vars

Init == IdleGamma /\ IdleFit
Next == NotcherConstructBadFormat \/ NotcherConstruct \/ NotchIteration \/ NotcherFit
Spec == Init /\ [][Next]_vars

----------------------------------------------------------------------------
(* Claims about AnalyticalGammaToGumbel, checked under SpecGamma *)

Constructed == analytical.status # "NotConstructed"
Given(x) == x # RNone
\* every parameter that is passed is a positive number
AllGivenPositive ==
    \A k \in {"dofs", "shape", "scale", "rate"} : Given(gargs[k]) => gargs[k][1] > 0
\* two rationals are the same number
RatEq(a, b) == a[1] * b[2] = b[1] * a[2]

\* C3: dofs passed together with scale or with rate is rejected with a
\* ValueError instead of constructing an object.
C3_DofsExcludesScaleRate ==
    (/\ Constructed
     /\ AllGivenPositive
     /\ Given(gargs.dofs)
     /\ (Given(gargs.scale) \/ Given(gargs.rate)))
    => analytical.status = "ValueError"

\* The inputs C4 lists.
C4_Case ==
    \/ \A k \in {"dofs", "shape", "scale", "rate"} : ~Given(gargs[k])
    \/ Given(gargs.dofs) /\ Given(gargs.shape)
    \/ Given(gargs.shape) /\ Given(gargs.scale) /\ Given(gargs.rate)
    \/ Given(gargs.shape) /\ ~Given(gargs.scale) /\ ~Given(gargs.rate)
    \/ /\ ~Given(gargs.shape)
       /\ ~Given(gargs.dofs)
       /\ (Given(gargs.scale) \/ Given(gargs.rate))

\* C4: construction raises ValueError and stores no shape and no scale when
\* no parameter is passed, when dofs comes with shape, when shape comes with
\* both scale and rate, when shape comes with neither, and when scale or rate
\* come without shape and without dofs (every passed parameter a positive
\* number).
C4_InvalidCombinationsRaise ==
    (Constructed /\ AllGivenPositive /\ C4_Case)
    => /\ analytical.status = "ValueError"
       /\ analytical.shape = RNone
       /\ analytical.scale = RNone

C4_Witness ==
    /\ Given(gargs.shape) /\ Given(gargs.scale) /\ Given(gargs.rate)
    /\ ~Given(gargs.dofs)
    /\ AllGivenPositive
    /\ analytical.status = "ValueError"

\* C5: each valid parameterisation stores the shape and scale of the
\* distribution it names: dofs = d stores (d/2, 2), (shape, scale) = (s, c)
\* stores (s, c), (shape, rate) = (s, r) stores (s, 1/r).
C5_StoredShapeScale ==
    (Constructed /\ AllGivenPositive) =>
        /\ (/\ Given(gargs.dofs) /\ ~Given(gargs.shape)
            /\ ~Given(gargs.scale) /\ ~Given(gargs.rate))
           => /\ analytical.status = "ok"
              /\ RatEq(<<2 * analytical.shape[1], analytical.shape[2]>>, gargs.dofs)
              /\ RatEq(analytical.scale, <<2, 1>>)
        /\ (/\ ~Given(gargs.dofs) /\ Given(gargs.shape)
            /\ Given(gargs.scale) /\ ~Given(gargs.rate))
           => /\ analytical.status = "ok"
              /\ RatEq(analytical.shape, gargs.shape)
              /\ RatEq(analytical.scale, gargs.scale)
        /\ (/\ ~Given(gargs.dofs) /\ Given(gargs.shape)
            /\ ~Given(gargs.scale) /\ Given(gargs.rate))
           => /\ analytical.status = "ok"
              /\ RatEq(analytical.shape, gargs.shape)
              /\ analytical.scale[2] > 0
              /\ analytical.scale[1] * gargs.rate[1]
                    = analytical.scale[2] * gargs.rate[2]

\* shape = 2 with rate = 1/2 has stored the shape 2 and the scale 2
C5_Witness ==
    /\ gargs = [dofs |-> RNone, shape |-> <<2, 1>>, scale |-> RNone, rate |-> <<1, 2>>]
    /\ analytical = [status |-> "ok", shape |-> <<2, 1>>, scale |-> <<2, 1>>]

----------------------------------------------------------------------------
(* Claims about BatchMaxGumbel, checked under SpecBatch *)

\* how often v occurs in the sequence a
Count(a, v) == Cardinality({i \in 1..Len(a) : a[i] = v})
SameMultiset(a, b) ==
    /\ Len(a) = Len(b)
    /\ \A i \in 1..Len(a) : Count(a, a[i]) = Count(b, a[i])

\* positions (0-based) of batch i among n samples batched by b
BatchPositions(i, b, n) == {j \in 0..(n - 1) : i * b <= j /\ j < (i + 1) * b}

\* C6: with N >= 1 samples and batch_size b >= 1, batch_max holds ceil(N/b)
\* maxima, maximum i being the largest of elements i*b .. min((i+1)*b, N)-1 of
\* the (permuted) samples; the batches partition the samples, and only the
\* last batch may be shorter than b.
C6_BatchMaxima ==
    (pc = "Fitted" /\ Truthy(kwargs.batch_size)) =>
        LET b == kwargs.batch_size.val
            n == Len(samples)
            nb == (n + b - 1) \div b
        IN /\ SameMultiset(samples_to_batch, samples)
           /\ (~kwargs.shuffle => samples_to_batch = samples)
           /\ Len(batch_max) = nb
           /\ \A i \in 0..(nb - 1) :
                 /\ BatchPositions(i, b, n) # {}
                 /\ \E j \in BatchPositions(i, b, n) :
                       batch_max[i + 1] = samples_to_batch[j + 1]
                 /\ \A j \in BatchPositions(i, b, n) :
                       samples_to_batch[j + 1] <= batch_max[i + 1]
                 /\ (i < nb - 1 => Cardinality(BatchPositions(i, b, n)) = b)
           /\ \A j \in 0..(n - 1) :
                 Cardinality({i \in 0..(nb - 1) : j \in BatchPositions(i, b, n)}) = 1

\* three shuffled samples in batches of two: a full batch and a short one
C6_Witness ==
    /\ pc = "Fitted"
    /\ kwargs.batch_size = Num(2)
    /\ samples = <<10, 0, 0>>
    /\ samples_to_batch = <<0, 0, 10>>
    /\ batch_max = <<0, 10>>

\* C7: a max_propagation call returns and stores
\* (loc + scale * ln(num_batches), scale) of the fitted (loc, scale) for the
\* num_batches of that call, and leaves the fitted parameters as they were,
\* whatever calls came before.
C7_MaxPropagation ==
    [][(pc = "Fitted" /\ pc' = "Fitted" /\ num_batches' # num_batches) =>
          LET n == num_batches'[Len(num_batches')]
          IN /\ gumbel' = gumbel
             /\ returned' = <<gumbel[1] + (gumbel[2] * LnMilli(n)) \div 1000, gumbel[2]>>
             /\ propagated_gumbel' = returned']_vars

\* a second call, with another num_batches than the first
C7_Witness ==
    /\ pc = "Fitted"
    /\ num_batches = <<3, 2>>
    /\ gumbel = <<1500, 2000>>
    /\ returned = <<2886, 2000>>
    /\ propagated_gumbel = <<2886, 2000>>

----------------------------------------------------------------------------
(* Claims about BatchMaxGumbelNotchingOutliers, checked under Spec *)

\* a notching iteration has run; f0, max_at_f0, threshold, stopping_det_stat
\* and last are those of the latest one
IterationRan == notching_iterations >= 1

\* index values whose per-index maximum exceeds the threshold
FlaggedFreqs == {f0[k] : k \in {j \in 1..Len(f0) : max_at_f0[j] > threshold}}

\* C1: an iteration that is not skipped returns no sample whose index value
\* has a per-index maximum above the threshold, wherever the flagged runs lie.
C1_FlaggedSamplesRemoved ==
    (IterationRan /\ threshold >= stopping_det_stat.val /\ last.raised = "") =>
        \A i \in 1..Len(last.output) : last.output[i][1] \notin FlaggedFreqs

\* C2: an iteration that leaves no sample ends the construction with the
\* RuntimeError and without a fit; an iteration that is not skipped and flags
\* every unique-index position is such an iteration.
C2_ExhaustedDataRaises ==
    IterationRan =>
        /\ (last.raised = "" /\ Len(last.output) = 0)
           => (pc = "Raised" /\ error = "RuntimeError" /\ "gumbel" \notin attrs)
        /\ (/\ threshold >= stopping_det_stat.val
            /\ \A k \in 1..Len(max_at_f0) : max_at_f0[k] > threshold)
           => (pc = "Raised" /\ error = "RuntimeError" /\ "gumbel" \notin attrs)

\* C8: samples that are not 2-D, or 2-D with fewer than two columns, end the
\* construction with the ValueError before anything is computed: no attribute
\* is set, no iteration runs, no fit is made.
C8_FormatErrorFirst ==
    (pc # "NotReady" /\ (input.ndim # 2 \/ input.ncols < 2)) =>
        /\ pc = "Raised"
        /\ error = "ValueError"
        /\ attrs = {}
        /\ notching_iterations = 0
        /\ last = NoIteration
        /\ max_at_f0 = <<>>
        /\ batch_max = <<>>

\* a 2-D array with a single column was rejected
C8_Witness ==
    /\ input.ndim = 2
    /\ input.ncols = 1
    /\ pc = "Raised"
    /\ error = "ValueError"

\* C9: an iteration with threshold < stopping_det_stat removes nothing (its
\* output holds the rows of its input, as a multiset) and raises nothing, so
\* the loop goes on to the next iteration or, after the last one, to the fit.
C9_SkippedIterationKeepsRows ==
    (IterationRan /\ threshold < stopping_det_stat.val) =>
        /\ SameMultiset(last.output, last.input)
        /\ last.raised = ""
        /\ error = ""
        /\ notched_samples = last.output
        /\ IF notching_iterations < num_iterations
           THEN pc = "Iterating"
           ELSE pc \in {"Notched", "Fitted"}

\* a skipped first iteration on rows given in descending index order, one of
\* them above the threshold, with a second iteration to come
C9_Witness ==
    /\ notching_iterations = 1
    /\ pc = "Iterating"
    /\ threshold < stopping_det_stat.val
    /\ \E k \in 1..Len(max_at_f0) : max_at_f0[k] > threshold
    /\ last.input = <<<<3, 0>>, <<2, 10>>, <<1, 0>>>>
    /\ last.output = <<<<1, 0>>, <<2, 10>>, <<3, 0>>>>

\* C10: a numeric threshold argument (0 included) is the threshold of the
\* iteration and the automatic selection is not used; a callable gives its
\* value on the per-index maxima; the automatic selection is used only for
\* None.
C10_ThresholdFollowsArgument ==
    IterationRan =>
        /\ kwargs.threshold.kind = "num"
           => (threshold = kwargs.threshold.val /\ last.source = "fixed")
        /\ kwargs.threshold.kind = "callable"
           => /\ threshold = CallThreshold(kwargs.threshold.fn, max_at_f0)
              /\ last.source = "callable"
        /\ last.source \in {"auto", "auto_failed"} => kwargs.threshold.kind = "None"

\* C11: the stopping reference of an iteration is the stopping_det_stat
\* argument whenever one is passed (0 included), and otherwise the
\* stopping_quantile quantile of the iteration's per-index maxima, for every
\* stopping_quantile passed (0 included), 0.8 being used only when none is
\* passed.
C11_StoppingReference ==
    IterationRan =>
        stopping_det_stat.val =
            IF kwargs.stopping_det_stat.kind = "num"
            THEN kwargs.stopping_det_stat.val
            ELSE Quantile(max_at_f0,
                          IF kwargs.stopping_quantile.kind = "num"
                          THEN kwargs.stopping_quantile.val
                          ELSE DefaultStoppingQuantile)

\* C12: with stopping_quantile = 1.0 and no stopping_det_stat, notching is a
\* no-op whatever threshold the policy yields: no iteration raises or removes
\* a sample, and the fit receives the statistic column of the input.
C12_FullQuantileIsNoOp ==
    (/\ pc # "NotReady"
     /\ kwargs.stopping_quantile = Num(10)
     /\ kwargs.stopping_det_stat = None)
    => /\ error = ""
       /\ SameMultiset(notched_samples, input.rows)
       /\ (pc = "Fitted" => SameMultiset(samples, LastColumn(input.rows)))

\* C16: an iteration that is not skipped and in which no per-index maximum
\* exceeds the threshold raises nothing and returns the rows of its input.
C16_NothingFlaggedReturnsInput ==
    (/\ IterationRan
     /\ threshold >= stopping_det_stat.val
     /\ \A k \in 1..Len(max_at_f0) : max_at_f0[k] <= threshold)
    => /\ last.raised = ""
       /\ error = ""
       /\ SameMultiset(last.output, last.input)


\* C13: for well-formed samples, a fixed numeric threshold with a requested
\* (or default, 5) num_iterations above 1 forces num_iterations to 1,
\* construction does not fail and exactly one iteration has run once the loop
\* is over; with a callable or None threshold num_iterations is the requested
\* (or default) number.
C13_FixedThresholdSingleIteration ==
    LET given == IF kwargs.num_iterations.kind # "None"
                 THEN kwargs.num_iterations.val ELSE DefaultNumIterations
    IN (pc # "NotReady" /\ ~FormatError(input.ndim, input.ncols)) =>
          /\ (kwargs.threshold.kind = "num" /\ given > 1) =>
                /\ num_iterations = 1
                /\ error = ""
                /\ (pc # "Iterating" => notching_iterations = 1)
          /\ kwargs.threshold.kind # "num" => num_iterations = given

\* C14: when the automatic threshold selection fails in an iteration, nothing
\* is raised, the threshold is -infinity, the iteration returns the rows of
\* its input, and the loop goes on to the next iteration or to the fit.
C14_AutoFailureFallsBack ==
    (IterationRan /\ last.source = "auto_failed") =>
        /\ threshold = NegInf
        /\ last.raised = ""
        /\ error = ""
        /\ last.skipped
        /\ SameMultiset(last.output, last.input)
        /\ SameMultiset(notched_samples, last.input)
        /\ pc = IF notching_iterations < num_iterations THEN "Iterating"
                ELSE IF "gumbel" \in attrs THEN "Fitted" ELSE "Notched"
C14_Witness ==
    /\ last.source = "auto_failed"
    /\ Len(max_at_f0) >= 2
    /\ notching_iterations = DefaultNumIterations
    /\ pc = "Fitted"


\* C15: a notcher construction is single-pass and ordered: the constructor
\* moves NotReady -> Iterating -> Notched -> Fitted and never back; every pass
\* of the loop works on the rows the previous pass returned and adds exactly 1
\* to notching_iterations, skipped or not; the fit happens once, from Notched,
\* with notching_iterations equal to the effective num_iterations, on the last
\* column of the notched rows; a pass that raises ends the construction
\* without a fit.
C15_Step ==
    /\ pc = "NotReady" =>
          /\ pc' \in {"Iterating", "Notched", "Raised"}
          /\ notching_iterations' = 0
          /\ "gumbel" \notin attrs'
          /\ (pc' = "Notched" => num_iterations' = 0)
          /\ (pc' = "Iterating" => notched_samples' = input'.rows)
    /\ pc = "Iterating" =>
          /\ notching_iterations' = notching_iterations + 1
          /\ notching_iterations' <= num_iterations
          /\ num_iterations' = num_iterations
          /\ (notching_iterations >= 1 => notched_samples = last.output)
          /\ last'.input = notched_samples
          /\ f0' = UniqueValues(SortByFreq(notched_samples))
          /\ (error' = "" => notched_samples' = last'.output)
          /\ pc' = IF error' # "" THEN "Raised"
                   ELSE IF notching_iterations' < num_iterations THEN "Iterating"
                   ELSE "Notched"
          /\ "gumbel" \notin attrs'
    /\ pc = "Notched" =>
          /\ pc' = "Fitted"
          /\ error = "" /\ error' = ""
          /\ notching_iterations = num_iterations
          /\ UNCHANGED <<notching_iterations, num_iterations, notched_samples>>
          /\ "gumbel" \notin attrs
          /\ "gumbel" \in attrs'
          /\ samples' = LastColumn(notched_samples)
    /\ pc \notin {"Fitted", "Raised"}
C15_SinglePassOrdered == [][C15_Step]_vars
C15_Witness ==
    /\ pc = "Fitted"
    /\ num_iterations = 2
    /\ notching_iterations = 2
    /\ Len(notched_samples) < Len(input.rows)
    /\ last.skipped


\* every row of a occurs in b at least as often as in a
SubMultiset(a, b) == \A i \in 1..Len(a) : Count(a, a[i]) <= Count(b, a[i])

\* C17: notching only removes flagged samples: an iteration that completes
\* returns every input row whose index value has a per-index maximum not
\* above the threshold, its output is a sub-multiset of its input, the
\* notched rows are a sub-multiset of the original samples, and the fit gets
\* the last column of the notched rows.
C17_OnlyFlaggedRemoved ==
    /\ (IterationRan /\ last.raised = "") =>
          /\ SubMultiset(last.output, last.input)
          /\ \A i \in 1..Len(last.input) :
                last.input[i][1] \notin FlaggedFreqs =>
                    Count(last.output, last.input[i]) = Count(last.input, last.input[i])
    /\ (pc \in {"Iterating", "Notched", "Fitted"}) =>
          SubMultiset(notched_samples, input.rows)
    /\ pc = "Fitted" => SameMultiset(samples, LastColumn(notched_samples))
C17_Witness ==
    /\ pc = "Fitted"
    /\ ~last.skipped
    /\ last.raised = ""
    /\ Len(last.output) < Len(last.input)
    /\ \E i \in 1..Len(last.input) : last.input[i][1] \notin FlaggedFreqs

====
